---- MODULE Spec2Model ----
(***************************************************************************)
(* JSON validator of Marbh56/Lorc: the streaming Lexer and the recursive   *)
(* descent Parser of src/main.go, and the first/last byte pre-check of     *)
(* src/unnamed/part_000.                                                   *)
(*                                                                         *)
(* Runes are code points (integers), Go strings are sequences of code      *)
(* points.  The byte source behind bufio.Reader is a stream: it delivers   *)
(* fragments of text while the program is blocked in ReadRune, and then    *)
(* ends with a clean end-of-stream or with a read failure.                 *)
(***************************************************************************)
EXTENDS Integers, Sequences, FiniteSets, TLC

VARIABLES
    reader,     \* Lexer.reader: the runes delivered by the source and not yet read
    closed,     \* the source: "open", or how it ended: "EOF" / "IOERR"
    char,       \* Lexer.char
    err,        \* Lexer.err: "nil", "EOF" (io.EOF) or "IOERR" (any other error)
    token,      \* Parser.token, the value returned by the last NextToken call
    pc,         \* position of the caller: "NewLexer", "lexed", "parsing", "done"
    stack,      \* call stack of the parser, innermost frame first
    ret,        \* error returned by the call that returned last ("nil" for none)
    result,     \* error returned by the top-level ParseObject ("none" while running)
    toks,       \* history: the types of the tokens pulled from the lexer
    classes,    \* history: the lexical classes of the fragments delivered
    scanned,    \* history: the runes the last NextToken call looked at
    delivered,  \* history: number of fragments delivered by the source
    file,       \* pre-check: the bytes of the file behind the open handle
    offset,     \* pre-check: the read position of the handle
    size,       \* pre-check: fileInfo.Size()
    firstChar,  \* pre-check: firstChar[0]
    lastChar,   \* pre-check: lastChar[0]
    verdict,    \* pre-check: what validJSON returned, [valid, err]
    status,     \* pre-check: the exit status of its main, NoStatus while it runs
    vpc,        \* pre-check: position in main and validJSON
    inspected   \* history: the offsets of the bytes the pre-check has read

\* the state of the validator (src/main.go)
pvars == <<reader, closed, char, err, token, pc, stack, ret, result,
           toks, classes, scanned, delivered>>

\* the state of the pre-check (src/unnamed/part_000)
hvars == <<file, offset, size, firstChar, lastChar, verdict, status, vpc, inspected>>

vars == <<pvars, hvars>>

lexvars == <<reader, char, err>>

----------------------------------------------------------------------------
(* Bounds of the model *)

MaxFrags == 7       \* fragments delivered in a validation run
MaxLexFrags == 3    \* fragments delivered to a tokenizing caller
MaxCalls == 3       \* NextToken calls of a tokenizing caller
MaxFile == 3        \* bytes of a file given to the pre-check

----------------------------------------------------------------------------
(* Runes *)

NUL == 0
TAB == 9
LF == 10
FF == 12
CR == 13
BS == 8
SPACE == 32
QUOTE == 34
PLUS == 43
COMMA == 44
MINUS == 45
DOT == 46
SLASH == 47
COLON == 58
LBRACKET == 91
BACKSLASH == 92
RBRACKET == 93
UNDERSCORE == 95
LBRACE == 123
RBRACE == 125

Whitespace == {SPACE, TAB, LF, CR}

\* the runes that may follow a backslash in a string
EscapeChars == {QUOTE, BACKSLASH, SLASH, 98, 102, 110, 114, 116}

\* the rune a blocked read leaves behind; never seen by a completed operation
NoRune == 0 - 1

\* unicode.IsDigit: category Nd; ASCII digits and the Arabic-Indic digits
IsDigit(c) == c \in 48..57 \/ c \in 1632..1641

\* unicode.IsLetter: category L, given here for Latin-1
IsLetter(c) ==
    \/ c \in 65..90
    \/ c \in 97..122
    \/ c \in {170, 181, 186}
    \/ c \in 192..214
    \/ c \in 216..246
    \/ c \in 248..255

\* fmt's %d of a rune below 100
Dec(n) == IF n < 10 THEN <<48 + n>> ELSE <<48 + (n \div 10), 48 + (n % 10)>>

----------------------------------------------------------------------------
(* Lexer.  A lexer value is [reader, char, err, blocked]; blocked is set   *)
(* when ReadRune has to wait for the source, and the operation that hit it *)
(* cannot complete until more text is delivered.                           *)

Lexer == [reader |-> reader, char |-> char, err |-> err, blocked |-> FALSE]

\* readChar that does not record the read error
readChar_DropErr(l) ==
    IF l.blocked THEN l
    ELSE IF l.reader # <<>>
         THEN [l EXCEPT !.char = Head(l.reader), !.reader = Tail(l.reader)]
    ELSE IF closed = "open"
         THEN [l EXCEPT !.char = NoRune, !.blocked = TRUE]
    ELSE [l EXCEPT !.char = NUL]

readChar(l) ==
    IF l.blocked THEN l
    ELSE IF l.reader # <<>>
         THEN [l EXCEPT !.char = Head(l.reader), !.reader = Tail(l.reader)]
    ELSE IF closed = "open"
         THEN [l EXCEPT !.char = NoRune, !.blocked = TRUE]
    ELSE [l EXCEPT !.char = NUL, !.err = closed]

RECURSIVE skipWhitespace(_)
skipWhitespace(l) ==
    IF l.char = SPACE \/ l.char = TAB \/ l.char = LF \/ l.char = CR
    THEN skipWhitespace(readChar(l))
    ELSE l

StringError(l, msg, arg) == [lexer |-> l, str |-> <<>>, err |-> msg, arg |-> arg]

\* readString that keeps the escaped rune as it is, decoded or not
RECURSIVE readStringLoop_Raw(_, _)
readStringLoop_Raw(l, res) ==
    IF l.char # QUOTE /\ l.err = "nil"
    THEN IF l.char = BACKSLASH
         THEN LET e == readChar(l) IN
              IF e.char \in EscapeChars
              THEN readStringLoop_Raw(readChar(e), Append(res, e.char))
              ELSE StringError(e, "invalid escape sequence: \\", <<e.char>>)
         ELSE IF l.char < 32
         THEN StringError(l, "invalid control character in string: ", Dec(l.char))
         ELSE readStringLoop_Raw(readChar(l), Append(res, l.char))
    ELSE IF l.err = "EOF"
    THEN StringError(l, "unterminated string", <<>>)
    ELSE [lexer |-> readChar(l), str |-> res, err |-> "", arg |-> <<>>]

\* readString that takes an unknown escape for the rune after the backslash
RECURSIVE readStringLoop_Lenient(_, _)
readStringLoop_Lenient(l, res) ==
    IF l.char # QUOTE /\ l.err = "nil"
    THEN IF l.char = BACKSLASH
         THEN LET e == readChar(l) IN
              CASE e.char = 98  -> readStringLoop_Lenient(readChar(e), Append(res, BS))
                [] e.char = 102 -> readStringLoop_Lenient(readChar(e), Append(res, FF))
                [] e.char = 110 -> readStringLoop_Lenient(readChar(e), Append(res, LF))
                [] e.char = 114 -> readStringLoop_Lenient(readChar(e), Append(res, CR))
                [] e.char = 116 -> readStringLoop_Lenient(readChar(e), Append(res, TAB))
                [] OTHER -> readStringLoop_Lenient(readChar(e), Append(res, e.char))
         ELSE IF l.char < 32
         THEN StringError(l, "invalid control character in string: ", Dec(l.char))
         ELSE readStringLoop_Lenient(readChar(l), Append(res, l.char))
    ELSE IF l.err = "EOF"
    THEN StringError(l, "unterminated string", <<>>)
    ELSE [lexer |-> readChar(l), str |-> res, err |-> "", arg |-> <<>>]

RECURSIVE readStringLoop(_, _)
readStringLoop(l, res) ==
    IF l.char # QUOTE /\ l.err = "nil"
    THEN IF l.char = BACKSLASH
         THEN LET e == readChar(l) IN
              CASE e.char \in {QUOTE, BACKSLASH, SLASH} ->
                       readStringLoop(readChar(e), Append(res, e.char))
                [] e.char = 98  -> readStringLoop(readChar(e), Append(res, BS))
                [] e.char = 102 -> readStringLoop(readChar(e), Append(res, FF))
                [] e.char = 110 -> readStringLoop(readChar(e), Append(res, LF))
                [] e.char = 114 -> readStringLoop(readChar(e), Append(res, CR))
                [] e.char = 116 -> readStringLoop(readChar(e), Append(res, TAB))
                [] OTHER -> StringError(e, "invalid escape sequence: \\", <<e.char>>)
         ELSE IF l.char < 32
         THEN StringError(l, "invalid control character in string: ", Dec(l.char))
         ELSE readStringLoop(readChar(l), Append(res, l.char))
    ELSE IF l.err = "EOF"
    THEN StringError(l, "unterminated string", <<>>)
    ELSE [lexer |-> readChar(l), str |-> res, err |-> "", arg |-> <<>>]

readString(l) == readStringLoop(readChar(l), <<>>)

RECURSIVE readDigits(_)
readDigits(s) ==
    IF s.lexer.err = "nil" /\ IsDigit(s.lexer.char)
    THEN readDigits([lexer |-> readChar(s.lexer), str |-> Append(s.str, s.lexer.char)])
    ELSE s

\* append the current rune and advance
Take(s) == [lexer |-> readChar(s.lexer), str |-> Append(s.str, s.lexer.char)]

\* readNumber that takes a decimal point and digits twice
readNumber_TwoFractions(l) ==
    LET s0 == [lexer |-> l, str |-> <<>>]
        s1 == IF s0.lexer.char = MINUS THEN Take(s0) ELSE s0
        s2 == readDigits(s1)
        f3 == IF s2.lexer.char = DOT THEN readDigits(Take(s2)) ELSE s2
        s3 == IF f3.lexer.char = DOT THEN readDigits(Take(f3)) ELSE f3
        s4 == IF s3.lexer.char = 101 \/ s3.lexer.char = 69
              THEN LET x == Take(s3)
                       y == IF x.lexer.char = PLUS \/ x.lexer.char = MINUS
                            THEN Take(x) ELSE x
                   IN  readDigits(y)
              ELSE s3
    IN  s4

readNumber(l) ==
    LET s0 == [lexer |-> l, str |-> <<>>]
        s1 == IF s0.lexer.char = MINUS THEN Take(s0) ELSE s0
        s2 == readDigits(s1)
        s3 == IF s2.lexer.char = DOT THEN readDigits(Take(s2)) ELSE s2
        s4 == IF s3.lexer.char = 101 \/ s3.lexer.char = 69
              THEN LET x == Take(s3)
                       y == IF x.lexer.char = PLUS \/ x.lexer.char = MINUS
                            THEN Take(x) ELSE x
                   IN  readDigits(y)
              ELSE s3
    IN  s4

\* readIdentifier that stops at an underscore
RECURSIVE readIdentifierLoop_NoUnderscore(_)
readIdentifierLoop_NoUnderscore(s) ==
    IF s.lexer.err = "nil" /\ IsLetter(s.lexer.char)
    THEN readIdentifierLoop_NoUnderscore(Take(s))
    ELSE s

RECURSIVE readIdentifierLoop(_)
readIdentifierLoop(s) ==
    IF s.lexer.err = "nil" /\ (IsLetter(s.lexer.char) \/ s.lexer.char = UNDERSCORE)
    THEN readIdentifierLoop(Take(s))
    ELSE s

readIdentifier(l) == readIdentifierLoop([lexer |-> l, str |-> <<>>])

\* a Token: Type, and Literal split into its fixed message and its text
Token(type, msg, lit) == [Type |-> type, Msg |-> msg, Literal |-> lit]

TRUE_ == <<116, 114, 117, 101>>
FALSE_ == <<102, 97, 108, 115, 101>>
NULL_ == <<110, 117, 108, 108>>

Punctuation(c) ==
    CASE c = LBRACE -> "TokenLeftBrace"
      [] c = RBRACE -> "TokenRightBrace"
      [] c = LBRACKET -> "TokenLeftBracket"
      [] c = RBRACKET -> "TokenRightBracket"
      [] c = COLON -> "TokenColon"
      [] c = COMMA -> "TokenComma"
      [] OTHER -> ""

\* NextToken that rejects a minus sign without digits
NextToken_RejectBareMinus(l0) ==
    LET l == skipWhitespace(l0) IN
    IF l.err = "EOF"
    THEN [lexer |-> l, tok |-> Token("TokenEOF", "", <<>>)]
    ELSE CASE Punctuation(l.char) # "" ->
                  [lexer |-> readChar(l), tok |-> Token(Punctuation(l.char), "", <<l.char>>)]
           [] l.char = QUOTE ->
                  LET r == readString(l) IN
                  IF r.err # ""
                  THEN [lexer |-> r.lexer, tok |-> Token("TokenError", r.err, r.arg)]
                  ELSE [lexer |-> r.lexer, tok |-> Token("TokenString", "", r.str)]
           [] IsDigit(l.char) \/ l.char = MINUS ->
                  LET r == readNumber(l) IN
                  [lexer |-> r.lexer,
                   tok |-> IF r.str = <<MINUS>>
                           THEN Token("TokenError", "invalid number: ", r.str)
                           ELSE Token("TokenNumber", "", r.str)]
           [] IsLetter(l.char) ->
                  LET r == readIdentifier(l) IN
                  [lexer |-> r.lexer,
                   tok |-> IF r.str = TRUE_ \/ r.str = FALSE_
                           THEN Token("TokenBoolean", "", r.str)
                           ELSE IF r.str = NULL_
                           THEN Token("TokenNull", "", r.str)
                           ELSE Token("TokenError", "invalid identifier: ", r.str)]
           [] OTHER ->
                  [lexer |-> l, tok |-> Token("TokenError", "", <<l.char>>)]

\* NextToken that reads past the character it cannot classify
NextToken_AdvanceOnError(l0) ==
    LET l == skipWhitespace(l0) IN
    IF l.err = "EOF"
    THEN [lexer |-> l, tok |-> Token("TokenEOF", "", <<>>)]
    ELSE CASE Punctuation(l.char) # "" ->
                  [lexer |-> readChar(l), tok |-> Token(Punctuation(l.char), "", <<l.char>>)]
           [] l.char = QUOTE ->
                  LET r == readString(l) IN
                  IF r.err # ""
                  THEN [lexer |-> r.lexer, tok |-> Token("TokenError", r.err, r.arg)]
                  ELSE [lexer |-> r.lexer, tok |-> Token("TokenString", "", r.str)]
           [] IsDigit(l.char) \/ l.char = MINUS ->
                  LET r == readNumber(l) IN
                  [lexer |-> r.lexer, tok |-> Token("TokenNumber", "", r.str)]
           [] IsLetter(l.char) ->
                  LET r == readIdentifier(l) IN
                  [lexer |-> r.lexer,
                   tok |-> IF r.str = TRUE_ \/ r.str = FALSE_
                           THEN Token("TokenBoolean", "", r.str)
                           ELSE IF r.str = NULL_
                           THEN Token("TokenNull", "", r.str)
                           ELSE Token("TokenError", "invalid identifier: ", r.str)]
           [] OTHER ->
                  [lexer |-> readChar(l), tok |-> Token("TokenError", "", <<l.char>>)]

\* NextToken that reports the end of the stream once and clears the error
NextToken_ReportOnce(l0) ==
    LET l == skipWhitespace(l0) IN
    IF l.err = "EOF"
    THEN [lexer |-> [l EXCEPT !.err = "nil"], tok |-> Token("TokenEOF", "", <<>>)]
    ELSE CASE Punctuation(l.char) # "" ->
                  [lexer |-> readChar(l), tok |-> Token(Punctuation(l.char), "", <<l.char>>)]
           [] l.char = QUOTE ->
                  LET r == readString(l) IN
                  IF r.err # ""
                  THEN [lexer |-> r.lexer, tok |-> Token("TokenError", r.err, r.arg)]
                  ELSE [lexer |-> r.lexer, tok |-> Token("TokenString", "", r.str)]
           [] IsDigit(l.char) \/ l.char = MINUS ->
                  LET r == readNumber(l) IN
                  [lexer |-> r.lexer, tok |-> Token("TokenNumber", "", r.str)]
           [] IsLetter(l.char) ->
                  LET r == readIdentifier(l) IN
                  [lexer |-> r.lexer,
                   tok |-> IF r.str = TRUE_ \/ r.str = FALSE_
                           THEN Token("TokenBoolean", "", r.str)
                           ELSE IF r.str = NULL_
                           THEN Token("TokenNull", "", r.str)
                           ELSE Token("TokenError", "invalid identifier: ", r.str)]
           [] OTHER ->
                  [lexer |-> l, tok |-> Token("TokenError", "", <<l.char>>)]

NextToken(l0) ==
    LET l == skipWhitespace(l0) IN
    IF l.err = "EOF"
    THEN [lexer |-> l, tok |-> Token("TokenEOF", "", <<>>)]
    ELSE CASE Punctuation(l.char) # "" ->
                  [lexer |-> readChar(l), tok |-> Token(Punctuation(l.char), "", <<l.char>>)]
           [] l.char = QUOTE ->
                  LET r == readString(l) IN
                  IF r.err # ""
                  THEN [lexer |-> r.lexer, tok |-> Token("TokenError", r.err, r.arg)]
                  ELSE [lexer |-> r.lexer, tok |-> Token("TokenString", "", r.str)]
           [] IsDigit(l.char) \/ l.char = MINUS ->
                  LET r == readNumber(l) IN
                  [lexer |-> r.lexer, tok |-> Token("TokenNumber", "", r.str)]
           [] IsLetter(l.char) ->
                  LET r == readIdentifier(l) IN
                  [lexer |-> r.lexer,
                   tok |-> IF r.str = TRUE_ \/ r.str = FALSE_
                           THEN Token("TokenBoolean", "", r.str)
                           ELSE IF r.str = NULL_
                           THEN Token("TokenNull", "", r.str)
                           ELSE Token("TokenError", "invalid identifier: ", r.str)]
           [] OTHER ->
                  [lexer |-> l, tok |-> Token("TokenError", "", <<l.char>>)]

----------------------------------------------------------------------------
(* Parser state: the call stack holds one frame [fn, at] per active call   *)
(* of ParseObject, parseArray or parseValue; at is the place in its body.  *)

\* an error value: the message, the token literal it quotes, and the number
\* of "invalid value: " prefixes put in front of it
Nil == [msg |-> "", wrapped |-> 0, got |-> [Msg |-> "", Literal |-> <<>>]]

Errorf(msg) ==
    [msg |-> msg, wrapped |-> 0,
     got |-> [Msg |-> token.Msg, Literal |-> token.Literal]]

Wrap(e) == [e EXCEPT !.wrapped = @ + 1]

Top == Head(stack)

At(fn, at) == pc = "parsing" /\ stack # <<>> /\ Top.fn = fn /\ Top.at = at

Scalars == {"TokenString", "TokenNumber", "TokenBoolean", "TokenNull"}

\* the next step of the parser calls p.nextToken()
Pulls ==
    \/ At("ParseObject", "open") /\ token.Type = "TokenLeftBrace"
    \/ At("ParseObject", "first") /\ token.Type = "TokenRightBrace"
    \/ At("ParseObject", "key") /\ token.Type = "TokenString"
    \/ At("ParseObject", "colon") /\ token.Type = "TokenColon"
    \/ At("ParseObject", "afterValue") /\ ret = Nil
          /\ token.Type \in {"TokenRightBrace", "TokenComma"}
    \/ At("parseValue", "open") /\ token.Type \in Scalars
    \/ At("parseArray", "open")
    \/ At("parseArray", "first") /\ token.Type = "TokenRightBracket"
    \/ At("parseArray", "afterValue") /\ ret = Nil
          /\ token.Type \in {"TokenRightBracket", "TokenComma"}

----------------------------------------------------------------------------
(* The grammar of the specification, stated on its own: lexemes of section *)
(* 4.1 and the productions of section 4.2.  The claims compare the program *)
(* with these definitions.                                                 *)

\* the rune an escape denotes
EscapeValue(c) ==
    CASE c = 98 -> BS [] c = 102 -> FF [] c = 110 -> LF
      [] c = 114 -> CR [] c = 116 -> TAB [] OTHER -> c

\* content of a string literal: plain runes >= 32 and supported escapes
RECURSIVE WellEscaped(_)
WellEscaped(c) ==
    \/ c = <<>>
    \/ /\ c[1] = BACKSLASH
       /\ Len(c) >= 2
       /\ c[2] \in EscapeChars
       /\ WellEscaped(SubSeq(c, 3, Len(c)))
    \/ /\ c[1] >= 32
       /\ c[1] \notin {QUOTE, BACKSLASH}
       /\ WellEscaped(Tail(c))

RECURSIVE Decode(_)
Decode(c) ==
    IF c = <<>> THEN <<>>
    ELSE IF c[1] = BACKSLASH
    THEN <<EscapeValue(c[2])>> \o Decode(SubSeq(c, 3, Len(c)))
    ELSE <<c[1]>> \o Decode(Tail(c))

IsStringLiteral(f) ==
    /\ Len(f) >= 2
    /\ f[1] = QUOTE
    /\ f[Len(f)] = QUOTE
    /\ WellEscaped(SubSeq(f, 2, Len(f) - 1))

Digits(s) == s # <<>> /\ \A k \in 1..Len(s) : s[k] \in 48..57

ExponentOK(r) ==
    \/ r = <<>>
    \/ /\ r[1] \in {101, 69}
       /\ LET x == Tail(r)
              y == IF x # <<>> /\ x[1] \in {PLUS, MINUS} THEN Tail(x) ELSE x
          IN  Digits(y)

FractionOK(r) ==
    \/ ExponentOK(r)
    \/ /\ r # <<>>
       /\ r[1] = DOT
       /\ \E j \in 2..Len(r) :
             Digits(SubSeq(r, 2, j)) /\ ExponentOK(SubSeq(r, j + 1, Len(r)))

\* -? digit+ (. digit+)? ([eE] [+-]? digit+)?
IsNumberLiteral(f) ==
    LET u == IF f # <<>> /\ f[1] = MINUS THEN Tail(f) ELSE f IN
    \E i \in 1..Len(u) :
        Digits(SubSeq(u, 1, i)) /\ FractionOK(SubSeq(u, i + 1, Len(u)))

\* the terminal a fragment of text is, named like the token types
LexClass(f) ==
    CASE Len(f) = 1 /\ Punctuation(f[1]) # "" -> Punctuation(f[1])
      [] f # <<>> /\ (\A k \in 1..Len(f) : f[k] \in Whitespace) -> "WS"
      [] IsStringLiteral(f) -> "TokenString"
      [] IsNumberLiteral(f) -> "TokenNumber"
      [] f = TRUE_ \/ f = FALSE_ -> "TokenBoolean"
      [] f = NULL_ -> "TokenNull"
      [] OTHER -> "TokenError"

Openers == {"TokenLeftBrace", "TokenLeftBracket"}
Closers == {"TokenRightBrace", "TokenRightBracket"}

\* a value with no bracket left in it: a scalar, or a reduced object or array
IsVal(t) == t \in Scalars \cup {"VALUE"}

\* member (',' member)* or nothing, members being STRING ':' value
FlatMembers(c) ==
    \/ c = <<>>
    \/ /\ Len(c) % 4 = 3
       /\ \A k \in 1..Len(c) :
             CASE k % 4 = 1 -> c[k] = "TokenString"
               [] k % 4 = 2 -> c[k] = "TokenColon"
               [] k % 4 = 3 -> IsVal(c[k])
               [] OTHER -> c[k] = "TokenComma"

\* value (',' value)* or nothing
FlatElems(c) ==
    \/ c = <<>>
    \/ /\ Len(c) % 2 = 1
       /\ \A k \in 1..Len(c) :
             IF k % 2 = 1 THEN IsVal(c[k]) ELSE c[k] = "TokenComma"

\* replace innermost objects and arrays by VALUE until no closer is left
RECURSIVE Reduced(_)
Reduced(s) ==
    LET cl == {j \in 1..Len(s) : s[j] \in Closers} IN
    IF cl = {} THEN s
    ELSE LET j == CHOOSE x \in cl : \A y \in cl : x <= y
             op == {i \in 1..(j - 1) : s[i] \in Openers}
         IN  IF op = {} THEN <<"FAIL">>
             ELSE LET i == CHOOSE x \in op : \A y \in op : x >= y
                      c == SubSeq(s, i + 1, j - 1)
                      ok == \/ /\ s[i] = "TokenLeftBrace"
                               /\ s[j] = "TokenRightBrace"
                               /\ FlatMembers(c)
                            \/ /\ s[i] = "TokenLeftBracket"
                               /\ s[j] = "TokenRightBracket"
                               /\ FlatElems(c)
                  IN  IF ok
                      THEN Reduced(SubSeq(s, 1, i - 1) \o <<"VALUE">>
                                       \o SubSeq(s, j + 1, Len(s)))
                      ELSE <<"FAIL">>

\* s is derivable from object
IsObject(s) == s # <<>> /\ s[1] = "TokenLeftBrace" /\ Reduced(s) = <<"VALUE">>

\* the openers of s that are not closed, outermost first
RECURSIVE OpenBrackets(_)
OpenBrackets(s) ==
    IF s = <<>> THEN <<>>
    ELSE LET o == OpenBrackets(SubSeq(s, 1, Len(s) - 1))
             t == s[Len(s)]
         IN  IF t \in Openers THEN Append(o, t)
             ELSE IF t \in Closers /\ o # <<>> THEN SubSeq(o, 1, Len(o) - 1)
             ELSE o

----------------------------------------------------------------------------
(* The byte source *)

\* fragments delivered to a tokenizing caller: parts of string literals,
\* of identifiers and of numbers, and single runes
LexFragments ==
    { <<QUOTE>>, <<QUOTE, 97>>, <<QUOTE, RBRACE>>,
      <<BACKSLASH, QUOTE>>, <<BACKSLASH, BACKSLASH>>, <<BACKSLASH, SLASH>>,
      <<BACKSLASH, 98>>, <<BACKSLASH, 102>>, <<BACKSLASH, 110>>,
      <<BACKSLASH, 114>>, <<BACKSLASH, 116>>,
      <<BACKSLASH, 113>>, <<BACKSLASH>>, <<TAB>>,
      <<116, 114, 117>>, <<101>>, <<110, 117, 108>>, <<108>>,
      <<102, 97, 108, 115>>, <<120>>, <<UNDERSCORE>>, <<233>>,
      <<49>>, <<MINUS>>, <<DOT>>, <<PLUS>>, <<1635>>,
      <<SPACE>>, <<RBRACE>>, <<64>> }

\* fragments delivered to a validation run, each a sequence of lexemes
DocFragments ==
    { << <<LBRACE>> >>, << <<RBRACE>> >>, << <<LBRACKET>> >>, << <<RBRACKET>> >>,
      << <<COLON>> >>, << <<COMMA>> >>,
      << <<QUOTE, 97, BACKSLASH, 110, QUOTE>> >>,
      << <<QUOTE, 107, QUOTE>>, <<COLON>> >>,
      << <<MINUS, 50, DOT, 53, 101, PLUS, 51>> >>, << <<MINUS>> >>,
      << TRUE_ >>, << NULL_ >>, << <<SPACE>> >>,
      << <<QUOTE, BACKSLASH, 113, QUOTE>> >>,
      << <<QUOTE, 97, BACKSLASH, 117, QUOTE>> >> }

RECURSIVE Flatten(_)
Flatten(f) == IF f = <<>> THEN <<>> ELSE Head(f) \o Flatten(Tail(f))

\* the text of each fragment, and the terminals it is made of
DocText == [f \in DocFragments |-> Flatten(f)]

DocClass ==
    [f \in DocFragments |->
        SelectSeq([i \in 1..Len(f) |-> LexClass(f[i])], LAMBDA c : c # "WS")]

\* the lexer operation the program is about to run, applied to the text
\* delivered so far; it is blocked when that text does not suffice
Pending ==
    CASE pc = "NewLexer" -> readChar(Lexer)
      [] pc = "lexed" -> NextToken(Lexer).lexer
      [] pc = "parsing" /\ Pulls -> NextToken(Lexer).lexer
      [] OTHER -> Lexer

AwaitsInput == closed = "open" /\ Pending.blocked

Supply ==
    /\ AwaitsInput
    /\ delivered < MaxFrags
    /\ \E f \in DocFragments :
          /\ reader' = reader \o DocText[f]
          /\ classes' = classes \o DocClass[f]
    /\ delivered' = delivered + 1
    /\ UNCHANGED <<closed, char, err, token, pc, stack, ret, result, toks, scanned, hvars>>

SupplyLex ==
    /\ AwaitsInput
    /\ delivered < MaxLexFrags
    /\ Len(toks) < MaxCalls
    /\ \E f \in LexFragments : reader' = reader \o f
    /\ delivered' = delivered + 1
    /\ UNCHANGED <<closed, char, err, token, pc, stack, ret, result,
                   toks, classes, scanned, hvars>>

Close ==
    /\ AwaitsInput
    /\ closed' \in {"EOF", "IOERR"}
    /\ UNCHANGED <<reader, char, err, token, pc, stack, ret, result,
                   toks, classes, scanned, delivered, hvars>>

----------------------------------------------------------------------------
(* The pre-check of src/unnamed/part_000: main and validJSON *)

\* the bytes a file is made of, and the files
FileBytes == {LBRACE, RBRACE, SPACE, LF, 120}

Files == UNION {[1..n -> FileBytes] : n \in 0..MaxFile}

\* validJSON has not returned; main has not exited
NoVerdict == [valid |-> FALSE, err |-> "none"]
NoStatus == 0 - 1

\* return valid, err
ReturnVerdict(valid, e) ==
    /\ verdict' = [valid |-> valid, err |-> e]
    /\ vpc' = "returned"

\* file.Read of one byte: the byte at the read position
ReadByte == IF offset < Len(file) THEN file[offset + 1] ELSE NUL

\* main up to the call of validJSON: the -file flag is empty, or names a file
PreCheckMain ==
    /\ vpc = "main"
    /\ \/ vpc' = "exited" /\ status' = 0
       \/ vpc' = "Open" /\ status' = status
    /\ UNCHANGED <<file, offset, size, firstChar, lastChar, verdict, inspected>>
    /\ UNCHANGED pvars

\* os.Open
OpenFile ==
    /\ vpc = "Open"
    /\ \/ /\ file' \in Files
          /\ vpc' = "Stat"
          /\ verdict' = verdict
       \/ /\ ReturnVerdict(FALSE, "open")
          /\ file' = file
    /\ UNCHANGED <<offset, size, firstChar, lastChar, status, inspected>>
    /\ UNCHANGED pvars

\* file.Stat, and the test for the empty file
StatFile ==
    /\ vpc = "Stat"
    /\ \/ /\ size' = Len(file)
          /\ IF Len(file) = 0
             THEN ReturnVerdict(FALSE, "nil")
             ELSE vpc' = "ReadFirst" /\ verdict' = verdict
       \/ /\ ReturnVerdict(FALSE, "stat")
          /\ size' = size
    /\ UNCHANGED <<file, offset, firstChar, lastChar, status, inspected>>
    /\ UNCHANGED pvars

\* the read of the first byte, and its test
ReadFirst ==
    /\ vpc = "ReadFirst"
    /\ \/ /\ offset < Len(file)
          /\ firstChar' = ReadByte
          /\ offset' = offset + 1
          /\ inspected' = inspected \cup {offset}
          /\ IF ReadByte # LBRACE
             THEN ReturnVerdict(FALSE, "nil")
             ELSE vpc' = "Seek" /\ verdict' = verdict
       \/ /\ ReturnVerdict(FALSE, IF offset < Len(file) THEN "read" ELSE "EOF")
          /\ UNCHANGED <<firstChar, offset, inspected>>
    /\ UNCHANGED <<file, size, lastChar, status>>
    /\ UNCHANGED pvars

\* SeekLast that leaves the read position where it is
SeekLast_NoSeek ==
    /\ vpc = "Seek"
    /\ \/ /\ offset' = offset
          /\ vpc' = "ReadLast"
          /\ verdict' = verdict
       \/ /\ ReturnVerdict(FALSE, "seek")
          /\ offset' = offset
    /\ UNCHANGED <<file, size, firstChar, lastChar, status, inspected>>
    /\ UNCHANGED pvars

\* file.Seek(size-1, 0)
SeekLast ==
    /\ vpc = "Seek"
    /\ \/ /\ offset' = size - 1
          /\ vpc' = "ReadLast"
          /\ verdict' = verdict
       \/ /\ ReturnVerdict(FALSE, "seek")
          /\ offset' = offset
    /\ UNCHANGED <<file, size, firstChar, lastChar, status, inspected>>
    /\ UNCHANGED pvars

\* the read of the last byte, and its test
ReadLast ==
    /\ vpc = "ReadLast"
    /\ \/ /\ offset < Len(file)
          /\ lastChar' = ReadByte
          /\ offset' = offset + 1
          /\ inspected' = inspected \cup {offset}
          /\ ReturnVerdict(ReadByte = RBRACE, "nil")
       \/ /\ ReturnVerdict(FALSE, IF offset < Len(file) THEN "read" ELSE "EOF")
          /\ UNCHANGED <<lastChar, offset, inspected>>
    /\ UNCHANGED <<file, size, firstChar, status>>
    /\ UNCHANGED pvars

\* main after validJSON: an error is printed and main returns, else the
\* verdict becomes the exit status
PreCheckExit ==
    /\ vpc = "returned"
    /\ vpc' = "exited"
    /\ status' = IF verdict.err # "nil" THEN 0
                 ELSE IF verdict.valid THEN 0 ELSE 1
    /\ UNCHANGED <<file, offset, size, firstChar, lastChar, verdict, inspected>>
    /\ UNCHANGED pvars

NextPreCheck ==
    PreCheckMain \/ OpenFile \/ StatFile \/ ReadFirst \/ SeekLast \/ ReadLast
        \/ PreCheckExit

----------------------------------------------------------------------------
(* The program *)

Init ==
    /\ reader = <<>>
    /\ closed = "open"
    /\ char = NUL
    /\ err = "nil"
    /\ token = Token("TokenError", "", <<>>)
    /\ pc = "NewLexer"
    /\ stack = <<>>
    /\ ret = Nil
    /\ result = Nil
    /\ toks = <<>>
    /\ classes = <<>>
    /\ scanned = <<>>
    /\ delivered = 0
    /\ file = <<>>
    /\ offset = 0
    /\ size = 0
    /\ firstChar = NUL
    /\ lastChar = NUL
    /\ verdict = NoVerdict
    /\ status = NoStatus
    /\ vpc = "main"
    /\ inspected = {}

SetLexer(l) ==
    /\ reader' = l.reader
    /\ char' = l.char
    /\ err' = l.err

NewLexer ==
    /\ pc = "NewLexer"
    /\ LET l == readChar(Lexer) IN
       /\ ~l.blocked
       /\ SetLexer(l)
    /\ pc' = "lexed"
    /\ UNCHANGED <<closed, token, stack, ret, result, toks, classes, scanned, delivered, hvars>>

\* the runes a NextToken call looked at: the current one and those it read
Scanned(l) ==
    (IF err = "nil" THEN <<char>> ELSE <<>>)
        \o SubSeq(reader, 1, Len(reader) - Len(l.reader))

\* p.token = p.lexer.NextToken()
nextToken ==
    LET r == NextToken(Lexer) IN
    /\ ~r.lexer.blocked
    /\ SetLexer(r.lexer)
    /\ token' = r.tok
    /\ toks' = Append(toks, r.tok.Type)
    /\ scanned' = Scanned(r.lexer)

NoPull == UNCHANGED <<reader, char, err, token, toks, scanned>>

\* a caller that tokenizes: one call of Lexer.NextToken
CallNextToken ==
    /\ pc = "lexed"
    /\ Len(toks) < MaxCalls
    /\ nextToken
    /\ UNCHANGED <<closed, pc, stack, ret, result, classes, delivered, hvars>>

\* main: NewParser loads the first token, then the top-level ParseObject starts
NewParser ==
    /\ pc = "lexed"
    /\ nextToken
    /\ pc' = "parsing"
    /\ stack' = <<[fn |-> "ParseObject", at |-> "open"]>>
    /\ UNCHANGED <<closed, ret, result, classes, delivered, hvars>>

Goto(at) ==
    /\ stack' = <<[Top EXCEPT !.at = at]>> \o Tail(stack)
    /\ UNCHANGED <<pc, ret, result>>

Call(fn, at) ==
    /\ stack' = <<[fn |-> fn, at |-> "open"], [Top EXCEPT !.at = at]>> \o Tail(stack)
    /\ UNCHANGED <<pc, ret, result>>

Return(e) ==
    /\ stack' = Tail(stack)
    /\ ret' = e
    /\ IF Tail(stack) = <<>>
       THEN pc' = "done" /\ result' = e
       ELSE UNCHANGED <<pc, result>>

Fail(e) == Return(e) /\ NoPull

\* ObjOpen that takes either opening delimiter
ObjOpen_AnyBracket ==
    /\ At("ParseObject", "open")
    /\ IF token.Type \notin {"TokenLeftBrace", "TokenLeftBracket"}
       THEN Fail(Errorf("expected '{'"))
       ELSE nextToken /\ Goto("first")
    /\ UNCHANGED <<closed, classes, delivered, hvars>>

ObjOpen ==
    /\ At("ParseObject", "open")
    /\ IF token.Type # "TokenLeftBrace"
       THEN Fail(Errorf("expected '{'"))
       ELSE nextToken /\ Goto("first")
    /\ UNCHANGED <<closed, classes, delivered, hvars>>

\* ObjFirst that returns on the closing brace without advancing past it
ObjFirst_NoAdvance ==
    /\ At("ParseObject", "first")
    /\ IF token.Type = "TokenRightBrace"
       THEN NoPull /\ Return(Nil)
       ELSE NoPull /\ Goto("key")
    /\ UNCHANGED <<closed, classes, delivered, hvars>>

ObjFirst ==
    /\ At("ParseObject", "first")
    /\ IF token.Type = "TokenRightBrace"
       THEN nextToken /\ Return(Nil)
       ELSE NoPull /\ Goto("key")
    /\ UNCHANGED <<closed, classes, delivered, hvars>>

ObjKey ==
    /\ At("ParseObject", "key")
    /\ IF token.Type # "TokenString"
       THEN Fail(Errorf("expected string key"))
       ELSE nextToken /\ Goto("colon")
    /\ UNCHANGED <<closed, classes, delivered, hvars>>

ObjColon ==
    /\ At("ParseObject", "colon")
    /\ IF token.Type # "TokenColon"
       THEN Fail(Errorf("expected ':'"))
       ELSE nextToken /\ Goto("value")
    /\ UNCHANGED <<closed, classes, delivered, hvars>>

ObjValue ==
    /\ At("ParseObject", "value")
    /\ Call("parseValue", "afterValue")
    /\ NoPull
    /\ UNCHANGED <<closed, classes, delivered, hvars>>

\* ObjAfterValue that lets the closing brace follow a comma
ObjAfterValue_TrailingComma ==
    /\ At("ParseObject", "afterValue")
    /\ IF ret # Nil
       THEN Fail(Wrap(ret))
       ELSE IF token.Type = "TokenRightBrace"
       THEN nextToken /\ Return(Nil)
       ELSE IF token.Type # "TokenComma"
       THEN Fail(Errorf("expected ',' or '}'"))
       ELSE nextToken /\ Goto("first")
    /\ UNCHANGED <<closed, classes, delivered, hvars>>

\* ObjAfterValue that wants the end of input after the closing brace
ObjAfterValue_Strict ==
    /\ At("ParseObject", "afterValue")
    /\ IF ret # Nil
       THEN Fail(Wrap(ret))
       ELSE IF token.Type = "TokenRightBrace"
       THEN /\ nextToken
            /\ IF NextToken(Lexer).tok.Type = "TokenEOF"
               THEN Return(Nil)
               ELSE Return([msg |-> "expected end of input", wrapped |-> 0,
                            got |-> [Msg |-> NextToken(Lexer).tok.Msg,
                                     Literal |-> NextToken(Lexer).tok.Literal]])
       ELSE IF token.Type # "TokenComma"
       THEN Fail(Errorf("expected ',' or '}'"))
       ELSE nextToken /\ Goto("key")
    /\ UNCHANGED <<closed, classes, delivered, hvars>>

ObjAfterValue ==
    /\ At("ParseObject", "afterValue")
    /\ IF ret # Nil
       THEN Fail(Wrap(ret))
       ELSE IF token.Type = "TokenRightBrace"
       THEN nextToken /\ Return(Nil)
       ELSE IF token.Type # "TokenComma"
       THEN Fail(Errorf("expected ',' or '}'"))
       ELSE nextToken /\ Goto("key")
    /\ UNCHANGED <<closed, classes, delivered, hvars>>

\* ValDispatch that takes a LexError token for a value
ValDispatch_SkipError ==
    /\ At("parseValue", "open")
    /\ CASE token.Type \in Scalars \cup {"TokenError"} -> nextToken /\ Return(Nil)
         [] token.Type = "TokenLeftBrace" -> NoPull /\ Call("ParseObject", "return")
         [] token.Type = "TokenLeftBracket" -> NoPull /\ Call("parseArray", "return")
         [] OTHER -> Fail(Errorf("expected value"))
    /\ UNCHANGED <<closed, classes, delivered, hvars>>

\* ValDispatch that has no case for null
ValDispatch_NoNull ==
    /\ At("parseValue", "open")
    /\ CASE token.Type \in Scalars \ {"TokenNull"} -> nextToken /\ Return(Nil)
         [] token.Type = "TokenLeftBrace" -> NoPull /\ Call("ParseObject", "return")
         [] token.Type = "TokenLeftBracket" -> NoPull /\ Call("parseArray", "return")
         [] OTHER -> Fail(Errorf("expected value"))
    /\ UNCHANGED <<closed, classes, delivered, hvars>>

ValDispatch ==
    /\ At("parseValue", "open")
    /\ CASE token.Type \in Scalars -> nextToken /\ Return(Nil)
         [] token.Type = "TokenLeftBrace" -> NoPull /\ Call("ParseObject", "return")
         [] token.Type = "TokenLeftBracket" -> NoPull /\ Call("parseArray", "return")
         [] OTHER -> Fail(Errorf("expected value"))
    /\ UNCHANGED <<closed, classes, delivered, hvars>>

\* ValReturn that drops the error of the nested production
ValReturn_Swallow ==
    /\ At("parseValue", "return")
    /\ Return(Nil)
    /\ NoPull
    /\ UNCHANGED <<closed, classes, delivered, hvars>>

\* return p.ParseObject() / return p.parseArray()
ValReturn ==
    /\ At("parseValue", "return")
    /\ Return(ret)
    /\ NoPull
    /\ UNCHANGED <<closed, classes, delivered, hvars>>

ArrOpen ==
    /\ At("parseArray", "open")
    /\ nextToken
    /\ Goto("first")
    /\ UNCHANGED <<closed, classes, delivered, hvars>>

\* ArrFirst that has no case for the empty array
ArrFirst_NoEmpty ==
    /\ At("parseArray", "first")
    /\ NoPull /\ Goto("value")
    /\ UNCHANGED <<closed, classes, delivered, hvars>>

ArrFirst ==
    /\ At("parseArray", "first")
    /\ IF token.Type = "TokenRightBracket"
       THEN nextToken /\ Return(Nil)
       ELSE NoPull /\ Goto("value")
    /\ UNCHANGED <<closed, classes, delivered, hvars>>

ArrValue ==
    /\ At("parseArray", "value")
    /\ Call("parseValue", "afterValue")
    /\ NoPull
    /\ UNCHANGED <<closed, classes, delivered, hvars>>

\* ArrAfterValue that lets the closing bracket follow a comma
ArrAfterValue_TrailingComma ==
    /\ At("parseArray", "afterValue")
    /\ IF ret # Nil
       THEN Fail(ret)
       ELSE IF token.Type = "TokenRightBracket"
       THEN nextToken /\ Return(Nil)
       ELSE IF token.Type # "TokenComma"
       THEN Fail(Errorf("expected ',' or ']'"))
       ELSE nextToken /\ Goto("first")
    /\ UNCHANGED <<closed, classes, delivered, hvars>>

ArrAfterValue ==
    /\ At("parseArray", "afterValue")
    /\ IF ret # Nil
       THEN Fail(ret)
       ELSE IF token.Type = "TokenRightBracket"
       THEN nextToken /\ Return(Nil)
       ELSE IF token.Type # "TokenComma"
       THEN Fail(Errorf("expected ',' or ']'"))
       ELSE nextToken /\ Goto("value")
    /\ UNCHANGED <<closed, classes, delivered, hvars>>

Next ==
    \/ Supply \/ Close \/ NewLexer \/ NewParser
    \/ ObjOpen \/ ObjFirst \/ ObjKey \/ ObjColon \/ ObjValue \/ ObjAfterValue
    \/ ValDispatch \/ ValReturn
    \/ ArrOpen \/ ArrFirst \/ ArrValue \/ ArrAfterValue

Spec == Init /\ [][Next]_vars

NextLex == SupplyLex \/ Close \/ NewLexer \/ CallNextToken

LexSpec == Init /\ [][NextLex]_vars

PreCheckSpec == Init /\ [][NextPreCheck]_vars

----------------------------------------------------------------------------
(* Properties of a validation run (Spec) *)

Last(s) == s[Len(s)]
Front(s) == SubSeq(s, 1, Len(s) - 1)

Started == pc \in {"parsing", "done"}

\* C1: completeness.  When the whole input, ended by a clean end-of-stream,
\* is a well-formed JSON object (nested objects and arrays, strings with the
\* supported escapes, numbers of the number grammar, true/false/null,
\* whitespace between tokens), the top-level ParseObject returns no error.
C1_Completeness ==
    (pc = "done" /\ closed = "EOF" /\ IsObject(classes)) => result = Nil

C1_Witness ==
    /\ pc = "done"
    /\ closed = "EOF"
    /\ result = Nil
    /\ classes = <<"TokenLeftBrace", "TokenString", "TokenColon", "TokenLeftBrace",
                   "TokenString", "TokenColon", "TokenNull",
                   "TokenRightBrace", "TokenRightBrace">>

\* C2: soundness.  The top-level ParseObject returns success only if the
\* tokens it consumed, up to and including the closing brace of the root,
\* are a derivation of object; every other token stream is rejected.
C2_Soundness ==
    (pc = "done" /\ result = Nil) => IsObject(Front(toks))

C2_Witness ==
    /\ pc = "done"
    /\ result = Nil
    /\ IsObject(Front(toks))
    /\ Len(toks) >= 8

NotAnObject ==
    {"TokenLeftBracket", "TokenString", "TokenNumber", "TokenBoolean", "TokenNull"}

\* C3: when the first token is LeftBracket, String, Number, Boolean or Null,
\* the top-level ParseObject fails with the "expected '{'" error and pulls no
\* further token from the lexer.
C3_TopLevelNotObject ==
    (Started /\ toks[1] \in NotAnObject) =>
        /\ Len(toks) = 1
        /\ pc = "parsing" => At("ParseObject", "open")
        /\ pc = "done" => result.msg = "expected '{'" /\ result.wrapped = 0

C3_Witness ==
    /\ pc = "done"
    /\ toks = <<"TokenLeftBracket">>
    /\ result.msg = "expected '{'"

\* C4: on the empty input the first token loaded by NewParser is EndOfInput
\* and the top-level ParseObject returns an error.
C4_EmptyInput ==
    (Started /\ delivered = 0 /\ closed = "EOF") =>
        /\ toks = <<"TokenEOF">>
        /\ pc = "done" => result # Nil

C4_Witness ==
    /\ pc = "done"
    /\ delivered = 0
    /\ closed = "EOF"
    /\ toks = <<"TokenEOF">>
    /\ result # Nil

\* the comma at position i of s stands directly inside an object
CommaInObject(s, i) ==
    /\ s[i] = "TokenComma"
    /\ LET o == OpenBrackets(SubSeq(s, 1, i - 1)) IN
       o # <<>> /\ Last(o) = "TokenLeftBrace"

\* C5: inside an object, a Comma followed by a token that is not a String
\* makes ParseObject fail with the "expected string key" error, at once.
C5_TrailingComma ==
    \A i \in 1..(Len(toks) - 1) :
        (Started /\ CommaInObject(toks, i) /\ toks[i + 1] # "TokenString") =>
            /\ i + 1 = Len(toks)
            /\ pc = "done" => result.msg = "expected string key"

C5_Witness ==
    /\ pc = "done"
    /\ toks = <<"TokenLeftBrace", "TokenString", "TokenColon", "TokenNumber",
                "TokenComma", "TokenRightBrace">>
    /\ result.msg = "expected string key"

\* C6: once the closing brace of the root object is matched, the top-level
\* ParseObject returns success whatever token follows it.
C6_TrailingContent ==
    \A k \in 1..Len(toks) :
        (Started /\ IsObject(SubSeq(toks, 1, k))) =>
            \/ k = Len(toks)
            \/ k = Len(toks) - 1 /\ pc = "done" /\ result = Nil

C6_Witness ==
    /\ pc = "done"
    /\ result = Nil
    /\ toks = <<"TokenLeftBrace", "TokenString", "TokenColon", "TokenNumber",
                "TokenRightBrace", "TokenError">>

C6_WitnessEmptyRoot ==
    /\ pc = "done"
    /\ result = Nil
    /\ toks = <<"TokenLeftBrace", "TokenRightBrace", "TokenRightBracket">>

\* C11: the first error is fatal.  From the step in which ParseObject,
\* parseArray or parseValue returns an error, no token is pulled and no rune
\* is read any more, every step is the return of the innermost active call
\* with an error, and the top-level ParseObject ends with an error.
C11_FirstErrorFatal ==
    [][(pc = "parsing" /\ (ret # Nil \/ ret' # Nil)) =>
          /\ ret' # Nil
          /\ toks' = toks
          /\ token' = token
          /\ reader' = reader
          /\ stack' = Tail(stack)
          /\ stack' = <<>> => (pc' = "done" /\ result' # Nil)
          /\ stack' # <<>> => pc' = "parsing"]_vars

C11_Witness ==
    /\ pc = "done"
    /\ result.msg = "expected value"
    /\ result.wrapped = 2
    /\ toks = <<"TokenLeftBrace", "TokenString", "TokenColon", "TokenLeftBracket",
                "TokenLeftBrace", "TokenString", "TokenColon", "TokenError">>

----------------------------------------------------------------------------
(* Properties of the lexer (LexSpec, and Spec for the tokens of a run) *)

\* text without its leading whitespace
RECURSIVE SkipWs(_)
SkipWs(s) == IF s # <<>> /\ s[1] \in Whitespace THEN SkipWs(Tail(s)) ELSE s

\* the text the last NextToken call classified, with the rune it stopped on
Body == SkipWs(scanned)

Called == pc = "lexed" /\ toks # <<>>

\* C7: once NextToken has returned EndOfInput, every later call returns
\* EndOfInput again and leaves the current rune, the carried error and the
\* read position as they were.
C7_EndOfInputIdempotent ==
    [][(Called /\ token.Type = "TokenEOF") =>
          /\ token'.Type = "TokenEOF"
          /\ char' = char
          /\ err' = err
          /\ reader' = reader]_vars

C7_Witness ==
    /\ Called
    /\ Len(toks) >= 3
    /\ toks[Len(toks)] = "TokenEOF"
    /\ toks[Len(toks) - 1] = "TokenEOF"
    /\ toks[1] # "TokenEOF"

\* C8: a string literal of runes >= 32 and supported escapes, closed by an
\* unescaped quote, yields a String token whose literal is the content with
\* every escape replaced by the rune it denotes, and leaves the cursor on
\* the rune after the closing quote.
C8_EscapeDecoding ==
    Called =>
        \A k \in 2..Len(Body) :
            (/\ Body[1] = QUOTE
             /\ Body[k] = QUOTE
             /\ WellEscaped(SubSeq(Body, 2, k - 1))) =>
                /\ token = Token("TokenString", "", Decode(SubSeq(Body, 2, k - 1)))
                /\ k >= Len(Body) - 1
                /\ k = Len(Body) - 1 => char = Body[Len(Body)] /\ err = "nil"
                /\ k = Len(Body) => err # "nil"

C8_Witness ==
    /\ Called
    /\ scanned = <<QUOTE, 97, BACKSLASH, 116, QUOTE, RBRACE>>
    /\ token = Token("TokenString", "", <<97, TAB>>)
    /\ char = RBRACE

InvalidEscape(c) == Token("TokenError", "invalid escape sequence: \\", <<c>>)

\* C9: in a string, a backslash followed by a rune that is none of the eight
\* escape runes yields a LexError token naming that rune, not a String token,
\* and a run that meets it as a key or as a value ends with an error.
C9_InvalidEscape ==
    Started =>
        \A k \in 2..(Len(Body) - 1) :
            (/\ Body[1] = QUOTE
             /\ WellEscaped(SubSeq(Body, 2, k - 1))
             /\ Body[k] = BACKSLASH
             /\ Body[k + 1] \notin EscapeChars) =>
                /\ token = InvalidEscape(Body[k + 1])
                /\ k + 1 = Len(Body)
                /\ (pc = "done" /\ ~IsObject(Front(toks))) => result # Nil

C9_Witness ==
    /\ pc = "done"
    /\ token = InvalidEscape(117)
    /\ toks = <<"TokenLeftBrace", "TokenString", "TokenColon", "TokenError">>
    /\ result.msg = "expected value"

IdentRune(c) == IsLetter(c) \/ c = UNDERSCORE

\* the longest prefix of s made of letters and underscores
MaxRun(s) ==
    LET n == CHOOSE n \in 0..Len(s) :
                 /\ \A i \in 1..n : IdentRune(s[i])
                 /\ n = Len(s) \/ ~IdentRune(s[n + 1])
    IN  SubSeq(s, 1, n)

\* C10: on a letter, NextToken consumes the longest run of letters and
\* underscores; the token is Boolean iff the run is exactly true or false,
\* Null iff it is exactly null, and otherwise a LexError with the run.
C10_IdentifierExact ==
    (Called /\ Body # <<>> /\ IsLetter(Body[1])) =>
        LET run == MaxRun(Body) IN
        /\ token = (CASE run = TRUE_ \/ run = FALSE_ -> Token("TokenBoolean", "", run)
                      [] run = NULL_ -> Token("TokenNull", "", run)
                      [] OTHER -> Token("TokenError", "invalid identifier: ", run))
        /\ Len(Body) <= Len(run) + 1
        /\ Len(Body) = Len(run) + 1 => char = Body[Len(Body)]

C10_Witness ==
    /\ Called
    /\ scanned = <<116, 114, 117, 101, UNDERSCORE>>
    /\ token = Token("TokenError", "invalid identifier: ", <<116, 114, 117, 101, UNDERSCORE>>)

C10_WitnessTrue ==
    /\ Called
    /\ scanned = <<116, 114, 117, 101, RBRACE>>
    /\ token = Token("TokenBoolean", "", TRUE_)
    /\ char = RBRACE

\* the text s opens a string literal that no unescaped quote closes
Unclosed(s) ==
    /\ s # <<>>
    /\ s[1] = QUOTE
    /\ ~\E k \in 2..Len(s) : s[k] = QUOTE /\ WellEscaped(SubSeq(s, 2, k - 1))

\* C12: a read failure other than the clean end-of-stream makes the run end
\* with an error; the call that meets it inside a string literal returns no
\* String token, and no call reports it as the LexError of an unrecognized
\* character.
C12_IOFailurePropagates ==
    (toks # <<>> /\ err = "IOERR") =>
        /\ pc = "done" => result # Nil
        /\ ~(token.Type = "TokenString" /\ Unclosed(Body))
        /\ token # Token("TokenError", "", <<NUL>>)

\* the parts of C12 on their own: the outcome of the run, the token of a
\* string literal cut by the failure, and the token of the calls after it
C12_NoSuccess == (pc = "done" /\ err = "IOERR") => result # Nil

C12_NoStringToken ==
    (toks # <<>> /\ err = "IOERR") => ~(token.Type = "TokenString" /\ Unclosed(Body))

C12_NoLexError ==
    (toks # <<>> /\ err = "IOERR") => token # Token("TokenError", "", <<NUL>>)

\* a run of at least min digits
Run(s, min) == Len(s) >= min /\ \A k \in 1..Len(s) : IsDigit(s[k])

FracShape(r, min) == r = <<>> \/ (r[1] = DOT /\ Run(Tail(r), min))

ExpShape(r, min) ==
    \/ r = <<>>
    \/ /\ r[1] \in {101, 69}
       /\ LET x == Tail(r)
              y == IF x # <<>> /\ x[1] \in {PLUS, MINUS} THEN Tail(x) ELSE x
          IN  Run(y, min)

\* -? digits (. digits)? ([eE] [+-]? digits)?, each run of at least min digits
NumberShape(f, min) ==
    LET u == IF f # <<>> /\ f[1] = MINUS THEN Tail(f) ELSE f IN
    \E i \in 0..Len(u) : \E j \in i..Len(u) :
        /\ Run(SubSeq(u, 1, i), min)
        /\ FracShape(SubSeq(u, i + 1, j), min)
        /\ ExpShape(SubSeq(u, j + 1, Len(u)), min)

\* C13 as claimed: the literal of every Number token matches
\* -? digit+ (. digit+)? ([eE] [+-]? digit+)?
C13_NumberGrammar ==
    (Called /\ token.Type = "TokenNumber") => NumberShape(token.Literal, 1)

\* C13, amended: the literal of every Number token begins with '-' or a
\* digit and matches -? digit* (. digit*)? ([eE] [+-]? digit*)?, a digit
\* being any Unicode decimal digit; each of the digit runs may be empty.
C13_NumberShape ==
    (Called /\ token.Type = "TokenNumber") =>
        /\ token.Literal # <<>>
        /\ token.Literal[1] = MINUS \/ IsDigit(token.Literal[1])
        /\ token.Msg = ""
        /\ NumberShape(token.Literal, 0)

C13_Witness ==
    /\ Called
    /\ token = Token("TokenNumber", "", <<49, DOT, 101>>)
    /\ err = "EOF"

\* the longest prefix of s that has the shape of a number, digit runs of
\* any length
MaxNumber(s) ==
    LET n == CHOOSE n \in 0..Len(s) :
                 /\ NumberShape(SubSeq(s, 1, n), 0)
                 /\ \A m \in (n + 1)..Len(s) : ~NumberShape(SubSeq(s, 1, m), 0)
    IN  SubSeq(s, 1, n)

\* the call of NextToken that found a digit or '-' returned the Number token
\* of the longest number-shaped text and stopped on the rune after it
GreedyNumber ==
    (toks # <<>> /\ Body # <<>> /\ (IsDigit(Body[1]) \/ Body[1] = MINUS)) =>
        LET lit == MaxNumber(Body) IN
        /\ token = Token("TokenNumber", "", lit)
        /\ Len(lit) >= 1
        /\ Len(Body) <= Len(lit) + 1
        /\ Len(Body) = Len(lit) + 1 => (char = Last(Body) /\ err = "nil")
        /\ Len(Body) = Len(lit) => err # "nil"

\* C14: on a digit or '-' NextToken returns a Number token, never a
\* LexError, whose literal is the text the greedy assembly consumed, at
\* least one rune; parseValue accepts every Number token, a bare '-' too.
C14_GreedyNumber ==
    /\ []GreedyNumber
    /\ [][(At("parseValue", "open") /\ token.Type = "TokenNumber" /\ stack' # stack) =>
             /\ ret' = Nil
             /\ stack' = Tail(stack)
             /\ Len(toks') = Len(toks) + 1]_vars

C14_Witness ==
    /\ pc = "done"
    /\ result = Nil
    /\ classes = <<"TokenLeftBrace", "TokenString", "TokenColon", "TokenError",
                   "TokenRightBrace">>
    /\ toks = <<"TokenLeftBrace", "TokenString", "TokenColon", "TokenNumber",
                "TokenRightBrace", "TokenEOF">>

Unterminated == Token("TokenError", "unterminated string", <<>>)

\* C15: when the end of the stream is reached inside a string literal,
\* before its unescaped closing quote, also right after a backslash,
\* NextToken returns the "unterminated string" LexError and no String token.
C15_UnterminatedString ==
    (Called /\ err = "EOF" /\ Unclosed(Body)) => token = Unterminated

\* C15 for the literals the end of the stream does not cut after a backslash
C15_NotAfterBackslash ==
    (Called /\ err = "EOF" /\ Unclosed(Body) /\ WellEscaped(Tail(Body))) =>
        token = Unterminated

----------------------------------------------------------------------------
(* Properties of the productions (Spec) *)

\* the comma at position i of s stands directly inside an array
CommaInArray(s, i) ==
    /\ s[i] = "TokenComma"
    /\ LET o == OpenBrackets(SubSeq(s, 1, i - 1)) IN
       o # <<>> /\ Last(o) = "TokenLeftBracket"

\* the token at position i of s ends a value that stands directly inside an
\* array: a scalar, or the closer of a nested object or array
ValueEndInArray(s, i) ==
    /\ s[i] \in Scalars \cup Closers
    /\ LET o == OpenBrackets(SubSeq(s, 1, i)) IN
       o # <<>> /\ Last(o) = "TokenLeftBracket"

\* the position of the opener that the closer at the end of s closes, or 0
MatchOpen(s) ==
    LET d == Len(OpenBrackets(s))
        c == {j \in 1..Len(s) :
                 s[j] \in Openers /\ Len(OpenBrackets(SubSeq(s, 1, j - 1))) = d}
    IN  IF c = {} THEN 0 ELSE CHOOSE j \in c : \A k \in c : k <= j

\* the step is taken by the parser
ParserStep == pc = "parsing" /\ stack' # stack

\* what the tokens pulled so far say about the arrays of the input
ArrayErrors ==
    /\ At("parseArray", "open") => (token.Type = "TokenLeftBracket" /\ Last(toks) = "TokenLeftBracket")
    /\ \A i \in 1..(Len(toks) - 1) :
          (Started /\ ValueEndInArray(toks, i)
                   /\ toks[i + 1] \notin {"TokenComma", "TokenRightBracket"}) =>
              /\ i + 1 = Len(toks)
              /\ pc = "done" => result.msg = "expected ',' or ']'"
    /\ \A i \in 1..(Len(toks) - 1) :
          (Started /\ CommaInArray(toks, i)
                   /\ toks[i + 1] \in {"TokenRightBracket", "TokenEOF"}) =>
              /\ i + 1 = Len(toks)
              /\ pc = "done" => result.msg = "expected value"

\* the steps of parseArray
ArraySteps ==
    /\ (ParserStep /\ At("parseArray", "first") /\ token.Type = "TokenRightBracket") =>
          (ret' = Nil /\ stack' = Tail(stack))
    /\ (ParserStep /\ At("parseArray", "afterValue") /\ ret = Nil
                   /\ token.Type = "TokenRightBracket") =>
          (ret' = Nil /\ stack' = Tail(stack))
    /\ (ParserStep /\ At("parseArray", "afterValue") /\ ret = Nil
                   /\ token.Type = "TokenComma") =>
          (Len(stack') = Len(stack) /\ Len(toks') = Len(toks) + 1 /\ ret' = Nil)
    /\ (ParserStep /\ Top.fn = "parseArray" /\ stack' = Tail(stack) /\ ret' = Nil) =>
          LET m == Front(toks')
              j == MatchOpen(m)
          IN  /\ Len(toks') = Len(toks) + 1
              /\ Last(m) = "TokenRightBracket"
              /\ j > 0
              /\ m[j] = "TokenLeftBracket"
              /\ Reduced(SubSeq(m, j, Len(m))) = <<"VALUE">>

\* C16: parseArray is entered on LeftBracket; it succeeds on an immediate
\* RightBracket and otherwise on values separated by commas up to the
\* RightBracket; a token other than Comma and RightBracket after a value
\* fails with "expected ',' or ']'", a Comma followed by RightBracket or by
\* the end of input fails with "expected value"; on success the tokens from
\* '[' through the matching ']' are consumed and one more is pulled.
C16_ArrayParsing == []ArrayErrors /\ [][ArraySteps]_vars

C16_Witness ==
    /\ pc = "done"
    /\ result = Nil
    /\ toks = <<"TokenLeftBrace", "TokenString", "TokenColon", "TokenLeftBracket",
                "TokenLeftBracket", "TokenRightBracket", "TokenRightBracket",
                "TokenRightBrace", "TokenEOF">>

C16_WitnessTrailingComma ==
    /\ pc = "done"
    /\ result.msg = "expected value"
    /\ toks = <<"TokenLeftBrace", "TokenString", "TokenColon", "TokenLeftBracket",
                "TokenNumber", "TokenComma", "TokenRightBracket">>

C16_WitnessSeparator ==
    /\ pc = "done"
    /\ result.msg = "expected ',' or ']'"
    /\ toks = <<"TokenLeftBrace", "TokenString", "TokenColon", "TokenLeftBracket",
                "TokenLeftBrace", "TokenRightBrace", "TokenColon">>

C16_WitnessEndOfInput ==
    /\ pc = "done"
    /\ result.msg = "expected value"
    /\ toks = <<"TokenLeftBrace", "TokenString", "TokenColon", "TokenLeftBracket",
                "TokenNull", "TokenComma", "TokenEOF">>

\* the token at position k of r, a text without closers, may stand there:
\* it continues the members or the elements of the nearest opener before it
PosOK(r, k) ==
    LET os == {i \in 1..(k - 1) : r[i] \in Openers}
        o == CHOOSE i \in os : \A j \in os : j <= i
        d == k - o
        val == IsVal(r[k]) \/ r[k] \in Openers
    IN  /\ os # {}
        /\ IF r[o] = "TokenLeftBrace"
           THEN CASE d % 4 = 1 -> r[k] = "TokenString"
                  [] d % 4 = 2 -> r[k] = "TokenColon"
                  [] d % 4 = 3 -> val
                  [] OTHER -> r[k] = "TokenComma"
           ELSE IF d % 2 = 1 THEN val ELSE r[k] = "TokenComma"

\* s is the beginning of a derivation of object, or a whole one
Viable(s) ==
    \/ s = <<>>
    \/ LET r == Reduced(s) IN
       /\ s[1] = "TokenLeftBrace"
       /\ \/ r = <<"VALUE">>
          \/ /\ r[1] = "TokenLeftBrace"
             /\ \A k \in 2..Len(r) : PosOK(r, k)

\* the parser holds the token pulled last, and all tokens before it are
\* matched: they begin a derivation of object, which the token pulled last
\* ends exactly when the run fails
Lookahead ==
    Started =>
        /\ toks # <<>>
        /\ token.Type = Last(toks)
        /\ Viable(Front(toks))
        /\ (pc = "done" /\ result # Nil) => ~Viable(toks)
        /\ (pc = "done" /\ result = Nil) =>
              /\ Reduced(Front(toks)) = <<"VALUE">>
              /\ \A k \in 1..(Len(toks) - 2) : Reduced(SubSeq(toks, 1, k)) # <<"VALUE">>

\* a production that returns success leaves the token after its last token
\* as the current one
ReturnsOnLookahead ==
    /\ ParserStep => (toks' = toks \/ (Front(toks') = toks /\ Viable(toks)))
    /\ (ParserStep /\ stack' = Tail(stack) /\ ret' = Nil) =>
          LET m == Front(toks')
              j == MatchOpen(m)
          IN  /\ token'.Type = Last(toks')
              /\ m # <<>>
              /\ CASE At("parseValue", "open") ->
                          Front(toks') = toks /\ Last(m) \in Scalars
                   [] At("parseValue", "return") ->
                          toks' = toks /\ Last(m) \in Closers
                   [] Top.fn = "ParseObject" ->
                          /\ Front(toks') = toks
                          /\ Last(m) = "TokenRightBrace"
                          /\ j > 0
                          /\ m[j] = "TokenLeftBrace"
                          /\ Reduced(SubSeq(m, j, Len(m))) = <<"VALUE">>
                   [] OTHER ->
                          /\ Front(toks') = toks
                          /\ Last(m) = "TokenRightBracket"

\* C17: one-token lookahead.  At every point of a run the tokens pulled are
\* the tokens matched and one more; a production that returns success
\* leaves the token after its last token as the current one; after a
\* successful top-level ParseObject one token beyond the closing brace of
\* the root has been pulled, and no more.
C17_OneTokenLookahead == []Lookahead /\ [][ReturnsOnLookahead]_vars

C17_Witness ==
    /\ pc = "done"
    /\ result = Nil
    /\ toks = <<"TokenLeftBrace", "TokenString", "TokenColon", "TokenLeftBrace",
                "TokenRightBrace", "TokenRightBrace", "TokenLeftBracket">>

----------------------------------------------------------------------------
(* Properties of the pre-check (PreCheckSpec) *)

Returned == vpc \in {"returned", "exited"} /\ verdict # NoVerdict

\* the file looks like an object: not empty, '{' first and '}' last
LooksLikeObject == file # <<>> /\ file[1] = LBRACE /\ file[Len(file)] = RBRACE

\* C18: validJSON returns true iff the file is not empty, its first byte is
\* '{' and its last byte is '}'.  It reads no byte in between, so a file
\* with malformed content between the braces is reported valid, and a file
\* with whitespace before or after the braces, or a file of one byte, is
\* reported invalid.
C18_HeuristicPreCheck ==
    /\ inspected \subseteq {0, Len(file) - 1}
    /\ Returned =>
          /\ verdict.valid => (verdict.err = "nil" /\ LooksLikeObject)
          /\ (verdict.err = "nil" /\ LooksLikeObject) => verdict.valid
          /\ (file # <<>> /\ (file[1] \in Whitespace \/ file[Len(file)] \in Whitespace)) =>
                ~verdict.valid
          /\ Len(file) = 1 => ~verdict.valid
          /\ verdict.err = "nil" =>
                inspected = (CASE file = <<>> -> {}
                               [] file[1] # LBRACE -> {0}
                               [] OTHER -> {0, Len(file) - 1})

C18_Witness ==
    /\ vpc = "exited"
    /\ file = <<LBRACE, 120, RBRACE>>
    /\ verdict = [valid |-> TRUE, err |-> "nil"]
    /\ status = 0

C18_WitnessWhitespace ==
    /\ vpc = "exited"
    /\ file = <<LBRACE, RBRACE, LF>>
    /\ verdict = [valid |-> FALSE, err |-> "nil"]
    /\ status = 1

C18_WitnessOneByte ==
    /\ vpc = "exited"
    /\ file = <<LBRACE>>
    /\ verdict = [valid |-> FALSE, err |-> "nil"]
    /\ inspected = {0}

\* a is what is left of b after some runes were read
Suffix(a, b) == Len(a) <= Len(b) /\ a = SubSeq(b, Len(b) - Len(a) + 1, Len(b))

\* b is a with some runes delivered after it
Prefix(a, b) == Len(a) <= Len(b) /\ a = SubSeq(b, 1, Len(a))

\* the places of the productions, and of each the number of steps the
\* parser can take from it without pulling a token, the calls it makes from
\* there included
Places ==
    {<<"ParseObject", "open">>, <<"ParseObject", "first">>, <<"ParseObject", "key">>,
     <<"ParseObject", "colon">>, <<"ParseObject", "value">>,
     <<"ParseObject", "afterValue">>,
     <<"parseValue", "open">>, <<"parseValue", "return">>,
     <<"parseArray", "open">>, <<"parseArray", "first">>, <<"parseArray", "value">>,
     <<"parseArray", "afterValue">>}

Rank(f) ==
    CASE f.at = "value" -> 5
      [] f.fn = "parseValue" /\ f.at = "open" -> 3
      [] f.fn = "parseArray" /\ f.at = "first" -> 6
      [] f.fn = "ParseObject" /\ f.at = "first" -> 2
      [] OTHER -> 1

RECURSIVE StackRank(_)
StackRank(st) == IF st = <<>> THEN 0 ELSE Rank(Head(st)) + StackRank(Tail(st))

\* the runes not consumed yet: the current one and those delivered
Unread == Len(reader) + (IF err = "nil" THEN 1 ELSE 0)

\* a bound on the steps the program can still take on the text delivered
Variant ==
    16 * (CASE pc = "NewLexer" -> 2 [] pc = "lexed" -> 1 [] OTHER -> 0)
        + 6 * Unread
        + 6 * (IF pc = "parsing" /\ token.Type \notin {"TokenError", "TokenEOF"}
               THEN 1 ELSE 0)
        + StackRank(stack)

\* the step is taken by the source
SourceStep == delivered' # delivered \/ closed' # closed

\* the program is at a place from which it takes a step as soon as the
\* read it waits for, if any, returns
CanStep ==
    \/ pc \in {"NewLexer", "lexed"}
    \/ pc = "parsing" /\ stack # <<>> /\ <<Top.fn, Top.at>> \in Places

NotStuck ==
    /\ pc # "done" => CanStep
    /\ pc = "done" <=> (pc \notin {"NewLexer", "lexed"} /\ stack = <<>>)
    /\ (pc # "done" /\ closed # "open") => ~Pending.blocked

\* no token is pulled after a LexError or EndOfInput token
StopsAtEnd ==
    Started => \A i \in 1..(Len(toks) - 1) : toks[i] \notin {"TokenError", "TokenEOF"}

\* runes are read once and in order; a token other than LexError and
\* EndOfInput takes at least one rune; a turn of the loop of ParseObject or
\* parseArray takes a token; every step of the program lowers the variant
Consumes ==
    /\ Suffix(reader', reader) \/ Prefix(reader, reader')
    /\ (toks' # toks /\ token'.Type \notin {"TokenError", "TokenEOF"}) =>
          (Len(reader') < Len(reader) \/ err' # err)
    /\ (ParserStep /\ Top.at = "afterValue" /\ Len(stack') = Len(stack)) =>
          (Len(toks') = Len(toks) + 1 /\ Head(stack').at # "afterValue")
    /\ ~SourceStep => Variant' < Variant

\* C19: termination.  On an input that ends with a clean end-of-stream the
\* run (NewLexer, NewParser, top-level ParseObject) comes to its end, with
\* success or with an error: the program is never stuck before the end and
\* each of its steps lowers a bound on the steps left; every token other
\* than LexError and EndOfInput takes at least one rune, no rune is read
\* twice, every turn of the object and array loops takes a token, and
\* nothing is pulled after a LexError or EndOfInput token.
C19_Termination ==
    /\ [](NotStuck /\ StopsAtEnd /\ Variant >= 0)
    /\ [][Consumes]_vars

C19_Witness ==
    /\ pc = "done"
    /\ closed = "EOF"
    /\ delivered = MaxFrags
    /\ Last(toks) = "TokenEOF"
    /\ result # Nil
    /\ Variant = 0

----------------------------------------------------------------------------
(* C20: the LexError for a character that starts no token *)

\* a rune that is not whitespace, punctuation, a quote, a digit, '-' or a
\* letter
Unrecognized(c) ==
    /\ c \notin Whitespace
    /\ Punctuation(c) = ""
    /\ c # QUOTE
    /\ ~IsDigit(c)
    /\ c # MINUS
    /\ ~IsLetter(c)

\* the token of the default case of NextToken's switch
CharError(t) == t.Type = "TokenError" /\ t.Msg = ""

\* a step that is one call of NextToken by the tokenizing caller
LexCall == pc = "lexed" /\ toks' # toks

\* the runes a call has taken from the reader, the last of them excepted,
\* are whitespace, and so is the rune the call started on
OnlyWhitespaceSkipped ==
    /\ Suffix(reader', reader)
    /\ char \in Whitespace
    /\ \A i \in 1..(Len(reader) - Len(reader') - 1) : reader[i] \in Whitespace

\* the call has read exactly one rune after the rune it started on
AdvancedOne ==
    IF reader # <<>>
    THEN reader' = Tail(reader) /\ char' = Head(reader) /\ err' = err
    ELSE reader' = <<>> /\ char' = NUL /\ err' = closed

\* C20 (as stated): a NextToken call that returns the LexError for an
\* unrecognized character leaves the lexer state (the reader, the current
\* rune and the carried error) as it was before the call.
C20_NoAdvance ==
    [][(LexCall /\ CharError(token')) => lexvars' = lexvars]_vars

\* C20: a NextToken call that returns the LexError for an unrecognized
\* character reads nothing but the whitespace in front of that character and
\* leaves the cursor on it: the token carries the current rune, which is an
\* unrecognized one, and a call that starts on the character changes nothing
\* of the lexer state.  After such a token every later call returns the same
\* token with the lexer state unchanged, so EndOfInput is never returned.  A
\* call that starts on a punctuation character reads exactly one rune.
C20_ErrorNotConsumed ==
    [][/\ (LexCall /\ CharError(token')) =>
             /\ token'.Literal = <<char'>>
             /\ Unrecognized(char')
             /\ (lexvars' = lexvars \/ OnlyWhitespaceSkipped)
             /\ (Unrecognized(char) => lexvars' = lexvars)
       /\ (Called /\ CharError(token)) =>
             /\ lexvars' = lexvars
             /\ token' = token
             /\ (LexCall => toks' = Append(toks, "TokenError"))
       /\ (LexCall /\ Punctuation(char) # "") =>
             /\ token' = Token(Punctuation(char), "", <<char>>)
             /\ AdvancedOne]_vars

\* three calls on the single character @ have returned the same LexError
C20_Witness ==
    /\ Called
    /\ delivered = 1
    /\ toks = <<"TokenError", "TokenError", "TokenError">>
    /\ token = Token("TokenError", "", <<64>>)
    /\ char = 64
    /\ err = "nil"

\* the LexError for @ returned by a call that first skipped a space
C20_WitnessAfterSpace ==
    /\ Called
    /\ Len(toks) = 1
    /\ scanned = <<SPACE, 64>>
    /\ token = Token("TokenError", "", <<64>>)
    /\ char = 64

\* a call on a closing brace has read one rune
C20_WitnessPunctuation ==
    /\ Called
    /\ toks = <<"TokenRightBrace">>
    /\ scanned = <<RBRACE, 64>>
    /\ char = 64

====
